---- MODULE Spec2Model ----
(***************************************************************************)
(* EduSeva client: the localStorage cache manager (src/src/lib/cache.ts)   *)
(* and the feature controllers that read and write it.                     *)
(*                                                                         *)
(* JavaScript values are records tagged by their type, so that values of   *)
(* different types can be compared.  localStorage is a function from the   *)
(* storage names that are present to the stored JSON text.                 *)
(***************************************************************************)
EXTENDS Integers, FiniteSets, Sequences, Bags, TLC

VARIABLES
  storage,     \* localStorage: [present storage names -> stored text]
  clock,       \* Date.now()
  ret,         \* the value returned by the last cache call
  touched,     \* history: keys written since their last remove / clear
  lastOp,      \* history: the last operation on the storage under CacheSpec
  route,       \* the page that is mounted
  view,        \* React state of the mounted feature page
  inflight,    \* generation requests awaiting their response (a bag)
  uploads,     \* uploadDocument calls awaiting their response
  redirects,   \* pending setTimeout(() => navigate("/chat"), 1000)
  files,       \* the file list of the mounted PDFUpload, with its timers
  docVersion,  \* history: documents uploaded successfully so far
  nReq         \* history: generation requests issued so far

cacheVars == <<storage, clock, ret, touched, lastOp>>
appVars ==
  <<route, view, inflight, uploads, redirects, files, docVersion, nReq>>
vars == <<storage, clock, ret, touched, lastOp, route, view, inflight, uploads,
          redirects, files, docVersion, nReq>>

----------------------------------------------------------------------------
(* Bounds *)

MaxClock == 2          \* Date.now() ranges over 0..MaxClock
MaxLive == 1           \* slots in use at once under CacheSpec
MaxReq == 2            \* generation requests issued in a run
MaxUploads == 1        \* uploads started in a run
MaxFiles == 2          \* entries added to the file list of one PDFUpload

----------------------------------------------------------------------------
(* JavaScript values *)

Undefined == [t |-> "undefined"]
Null == [t |-> "null"]
EmptyArray == [t |-> "array", len |-> 0]
NestedObject == [t |-> "object", questions |-> [t |-> "array", len |-> 3]]
True == [t |-> "boolean", v |-> TRUE]
False == [t |-> "boolean", v |-> FALSE]

Bool(b) == IF b THEN True ELSE False

\* the values a caller hands to set under CacheSpec
JsonValues == {Null, EmptyArray, NestedObject}

\* expiresIn?: number  -- {} when the argument is omitted, {n} otherwise
NoTtl == {}

\* the <<data, expiresIn>> pairs a caller hands to set under CacheSpec
SetInputs ==
  (JsonValues \X {NoTtl}) \cup ({NestedObject} \X {{0}, {1}})

----------------------------------------------------------------------------
(* cache.ts *)

CACHE_PREFIX == "eduseva_"

CACHE_KEYS ==
  {"flashcards", "quiz", "mindmap", "summary", "question_paper", "podcast",
   "chat_history"}

\* `${CACHE_PREFIX}${key}`, tabulated over the registry
StorageNames == [key \in CACHE_KEYS |-> CACHE_PREFIX \o key]
getKey(key) == StorageNames[key]

\* JSON.stringify(cacheItem): a property whose value is undefined is dropped
JsonStringify(data, timestamp, expiresIn) ==
  [data |-> IF data = Undefined THEN {} ELSE {data},
   timestamp |-> timestamp,
   expiresIn |-> expiresIn]

\* JSON.parse(item): a property that is not in the text reads as undefined
JsonParse(item) ==
  [data |-> IF item.data = {} THEN Undefined ELSE CHOOSE d \in item.data : TRUE,
   timestamp |-> item.timestamp,
   expiresIn |-> item.expiresIn]

\* stored text that is not JSON: JSON.parse(item) throws a SyntaxError
Garbage == [text |-> "{not json"]
ParseThrows(item) == item = Garbage

\* what a method that let an exception escape would hand to its caller
Thrown == [t |-> "exception"]

\* localStorage is shared by every script of the origin: the ThemeProvider of
\* App.tsx keeps the chosen theme in it, under a name outside the registry
ForeignName == "theme"
ForeignText == [text |-> "dark"]

\* localStorage.setItem / removeItem / getItem
setItem(st, name, text) == (name :> text) @@ st
removeItem(st, name) == [n \in DOMAIN st \ {name} |-> st[n]]
hasItem(st, name) == name \in DOMAIN st

\* if (cacheItem.expiresIn): undefined and 0 are falsy
ExpiresInTruthy(cacheItem) == \E n \in cacheItem.expiresIn : n # 0

\* mutant: an absent expiresIn read as 0, (cacheItem.expiresIn ?? 0)
IsExpired_AbsentAsZero(cacheItem, now) ==
  LET n == IF cacheItem.expiresIn = {} THEN 0
           ELSE CHOOSE m \in cacheItem.expiresIn : TRUE
  IN now - cacheItem.timestamp > n

\* mutant: the expiry test is not strict (>= instead of >)
IsExpired_NonStrict(cacheItem, now) ==
  /\ ExpiresInTruthy(cacheItem)
  /\ \E n \in cacheItem.expiresIn : now - cacheItem.timestamp >= n

\* Date.now() - cacheItem.timestamp > cacheItem.expiresIn
IsExpired(cacheItem, now) ==
  /\ ExpiresInTruthy(cacheItem)
  /\ \E n \in cacheItem.expiresIn : now - cacheItem.timestamp > n

\* mutant: a write without expiresIn keeps the expiresIn of the entry it
\* replaces
CacheSet_MergesTtl(st, now, key, data, expiresIn, storageOk) ==
  IF storageOk
  THEN setItem(st, getKey(key),
               JsonStringify(data, now,
                 IF /\ expiresIn = NoTtl
                    /\ hasItem(st, getKey(key))
                    /\ ~ParseThrows(st[getKey(key)])
                 THEN st[getKey(key)].expiresIn ELSE expiresIn))
  ELSE st

\* mutant: a failed write deletes the entry that was there
CacheSet_DropsOnFailure(st, now, key, data, expiresIn, storageOk) ==
  IF storageOk
  THEN setItem(st, getKey(key), JsonStringify(data, now, expiresIn))
  ELSE [n \in DOMAIN st \ {getKey(key)} |-> st[n]]

\* mutant: the entry is stored under key instead of this.getKey(key)
CacheSet_UnprefixedKey(st, now, key, data, expiresIn, storageOk) ==
  IF storageOk
  THEN setItem(st, key, JsonStringify(data, now, expiresIn))
  ELSE st

\* set: storageOk = FALSE is setItem throwing (quota); the catch swallows it
CacheSet(st, now, key, data, expiresIn, storageOk) ==
  IF storageOk
  THEN setItem(st, getKey(key), JsonStringify(data, now, expiresIn))
  ELSE st

\* mutant: remove empties the storage
CacheRemove_RemovesAll(st, key) == [n \in {} |-> Null]

\* mutant: remove deletes nothing
CacheRemove_NoOp(st, key) == st

CacheRemove(st, key) == removeItem(st, getKey(key))

\* mutant: get without its try / catch
CacheGet_NoCatch(st, now, key) ==
  IF ~hasItem(st, getKey(key)) THEN Null
  ELSE IF ParseThrows(st[getKey(key)]) THEN Thrown
  ELSE LET cacheItem == JsonParse(st[getKey(key)]) IN
       IF IsExpired(cacheItem, now) THEN Null ELSE cacheItem.data

\* get: the value it returns; the catch turns a SyntaxError into null
CacheGet(st, now, key) ==
  IF ~hasItem(st, getKey(key)) THEN Null
  ELSE IF ParseThrows(st[getKey(key)]) THEN Null
  ELSE LET cacheItem == JsonParse(st[getKey(key)]) IN
       IF IsExpired(cacheItem, now) THEN Null ELSE cacheItem.data

\* mutant: a hit rewrites the entry with the time of the read
CacheGetStorage_Refreshes(st, now, key) ==
  IF ~hasItem(st, getKey(key)) THEN st
  ELSE IF ParseThrows(st[getKey(key)]) THEN st
  ELSE IF IsExpired(JsonParse(st[getKey(key)]), now)
       THEN CacheRemove(st, key)
       ELSE setItem(st, getKey(key), [st[getKey(key)] EXCEPT !.timestamp = now])

\* get: the storage it leaves (this.remove(key) when expired)
CacheGetStorage(st, now, key) ==
  IF ~hasItem(st, getKey(key)) THEN st
  ELSE IF ParseThrows(st[getKey(key)]) THEN st
  ELSE IF IsExpired(JsonParse(st[getKey(key)]), now)
       THEN CacheRemove(st, key)
       ELSE st

RECURSIVE RemoveAll(_, _)
RemoveAll(st, keys) ==
  IF keys = {} THEN st
  ELSE LET key == CHOOSE k \in keys : TRUE IN
       RemoveAll(CacheRemove(st, key), keys \ {key})

\* mutant: clear is localStorage.clear()
CacheClear_WipesStorage(st) == [n \in {} |-> Null]

\* mutants: a slot is missing from the registry clear iterates over
CacheClear_SkipsSummary(st) == RemoveAll(st, CACHE_KEYS \ {"summary"})
CacheClear_SkipsChatHistory(st) == RemoveAll(st, CACHE_KEYS \ {"chat_history"})

\* clear: Object.values(CACHE_KEYS).forEach(key => this.remove(key))
CacheClear(st) == RemoveAll(st, CACHE_KEYS)

\* mutant: has looks the name up instead of delegating to get
CacheHas_ItemPresent(st, now, key) == hasItem(st, getKey(key))

\* has: this.get(key) !== null
CacheHas(st, now, key) == CacheGet(st, now, key) # Null

LiveKeys(st) == {k \in CACHE_KEYS : hasItem(st, getKey(k))}

----------------------------------------------------------------------------
(* The cache manager driven by an arbitrary caller *)

\* history: the key whose entry a read finds expired, and so removes
Evicted(st, now, key) ==
  IF /\ hasItem(st, getKey(key))
     /\ ~ParseThrows(st[getKey(key)])
     /\ IsExpired(JsonParse(st[getKey(key)]), now)
  THEN {key} ELSE {}

\* history: set, and whether it replaced an entry
SetOps == {"set", "set, overwriting"}

Set(key, data, expiresIn, storageOk) ==
  /\ lastOp' = IF storageOk /\ hasItem(storage, getKey(key))
               THEN "set, overwriting" ELSE "set"
  /\ ret' = Undefined
  /\ UNCHANGED <<clock, appVars>>
  /\ touched' = IF storageOk THEN touched \cup {key} ELSE touched
  /\ key \in LiveKeys(storage) \/ Cardinality(LiveKeys(storage)) < MaxLive
  /\ storage' = CacheSet(storage, clock, key, data, expiresIn, storageOk)

Get(key) ==
  /\ ret' = CacheGet(storage, clock, key)
  /\ lastOp' = "get"
  /\ storage' = CacheGetStorage(storage, clock, key)
  /\ touched' = touched \ Evicted(storage, clock, key)
  /\ UNCHANGED <<clock, appVars>>

Has(key) ==
  /\ ret' = Bool(CacheHas(storage, clock, key))
  /\ lastOp' = IF Evicted(storage, clock, key) = {} THEN "has" ELSE "has, evicting"
  /\ storage' = CacheGetStorage(storage, clock, key)
  /\ touched' = touched \ Evicted(storage, clock, key)
  /\ UNCHANGED <<clock, appVars>>

Remove(key) ==
  /\ storage' = CacheRemove(storage, key)
  /\ touched' = touched \ {key}
  /\ ret' = Undefined
  /\ lastOp' = "remove"
  /\ UNCHANGED <<clock, appVars>>

Clear ==
  /\ storage' = CacheClear(storage)
  /\ touched' = {}
  /\ ret' = Undefined
  /\ lastOp' = "clear"
  /\ UNCHANGED <<clock, appVars>>

\* another script of the origin, or the user, writes text that is not JSON
Corrupt(key) ==
  /\ key \in LiveKeys(storage) \/ Cardinality(LiveKeys(storage)) < MaxLive
  /\ storage' = setItem(storage, getKey(key), Garbage)
  /\ touched' = touched \ {key}
  /\ lastOp' = "corrupt"
  /\ UNCHANGED <<ret, clock, appVars>>

Tick ==
  /\ clock < MaxClock
  /\ clock' = clock + 1
  /\ UNCHANGED <<storage, ret, touched, lastOp, appVars>>

InitCache ==
  /\ storage = (ForeignName :> ForeignText)
  /\ clock = 0
  /\ ret = Undefined
  /\ touched = {}
  /\ lastOp = "none"
  /\ route = "upload"
  /\ view = [shown |-> Null, ready |-> FALSE, loading |-> FALSE, src |-> "none",
             index |-> 0, flipped |-> FALSE]
  /\ inflight = EmptyBag
  /\ uploads = 0
  /\ redirects = 0
  /\ files = << >>
  /\ docVersion = 0
  /\ nReq = 0

NextCache ==
  \/ \E key \in CACHE_KEYS, inp \in SetInputs, storageOk \in BOOLEAN :
        Set(key, inp[1], inp[2], storageOk)
  \/ \E key \in CACHE_KEYS : Get(key)
  \/ \E key \in CACHE_KEYS : Has(key)
  \/ \E key \in CACHE_KEYS : Remove(key)
  \/ Clear
  \/ \E key \in CACHE_KEYS : Corrupt(key)
  \/ Tick

CacheSpec == InitCache /\ [][NextCache]_vars

----------------------------------------------------------------------------
(* The application: pages, generation requests, uploads *)

Features == CACHE_KEYS \ {"chat_history"}

\* "upload" also stands for the pages that touch neither cache nor endpoint
Routes == Features \cup {"upload", "chat"}

\* the number of items (cards, questions, ...) of a generated artifact: the
\* code tests only length > 0; 3 is the quiz of the reload scenario
Lens == {0, 3}

\* the features whose code tests the length of the artifact (flashcards:
\* cachedFlashcards.length > 0, quiz: questions?.length > 0); for the others
\* an artifact without items behaves as one with items
LengthTested == {"flashcards", "quiz"}

\* the numbers of cards of a flashcards response: a regeneration can return
\* fewer cards than the one before
CardCounts == Lens \cup {1}

LensOf(f) ==
  IF f = "flashcards" THEN CardCounts
  ELSE IF f \in LengthTested THEN Lens
  ELSE Lens \ {0}

\* the useState initial values of a page.  shown is the artifact held in
\* state, ready is generated / activeTab = "take" / flashcards.length > 0;
\* src is history: whether shown was read from the cache or from a response;
\* index and flipped are currentIndex and isFlipped of FlashcardView
EmptyView ==
  [shown |-> Null, ready |-> FALSE, loading |-> FALSE, src |-> "none",
   index |-> 0, flipped |-> FALSE]

\* what a generation response carries: an artifact of len items.  stale is
\* history: a document was uploaded after the request was issued
Artifact(req, len) == [t |-> "artifact", stale |-> req.stale, len |-> len]

\* cachedFlashcards && Array.isArray(cachedFlashcards) && length > 0
FlashcardsHit(cached) == cached # Null /\ cached.len > 0

\* ChatInterface: messages (an array of len messages) and isTyping
Messages(len) == [t |-> "array", len |-> len]
ChatView(len, isTyping) ==
  [shown |-> Messages(len), ready |-> FALSE, loading |-> isTyping,
   src |-> "none", index |-> 0, flipped |-> FALSE]

\* mutant: the mount effect of Quiz does not switch to the "take" tab
MountView_QuizStaysOnGenerate(r, cached) ==
  IF r = "flashcards"
  THEN IF FlashcardsHit(cached)
       THEN [shown |-> cached, ready |-> TRUE, loading |-> FALSE,
             src |-> "cache", index |-> 0, flipped |-> FALSE]
       ELSE [EmptyView EXCEPT !.loading = TRUE]
  ELSE IF r = "quiz"
  THEN IF cached # Null
       THEN [shown |-> cached, ready |-> FALSE, loading |-> FALSE,
             src |-> "cache", index |-> 0, flipped |-> FALSE]
       ELSE EmptyView
  ELSE IF r \in Features /\ cached # Null
  THEN [shown |-> cached, ready |-> TRUE, loading |-> FALSE, src |-> "cache",
        index |-> 0, flipped |-> FALSE]
  ELSE IF r = "chat"
  THEN ChatView(0, FALSE)
  ELSE EmptyView

\* the state the mount effect of page r leaves, given what cache.get returned
MountView(r, cached) ==
  IF r = "flashcards"
  THEN IF FlashcardsHit(cached)
       THEN [shown |-> cached, ready |-> TRUE, loading |-> FALSE,
             src |-> "cache", index |-> 0, flipped |-> FALSE]
       ELSE [EmptyView EXCEPT !.loading = TRUE]
  ELSE IF r = "quiz"
  THEN IF cached # Null
       THEN [shown |-> cached, ready |-> cached.len > 0, loading |-> FALSE,
             src |-> "cache", index |-> 0, flipped |-> FALSE]
       ELSE EmptyView
  ELSE IF r \in Features /\ cached # Null
  THEN [shown |-> cached, ready |-> TRUE, loading |-> FALSE, src |-> "cache",
        index |-> 0, flipped |-> FALSE]
  ELSE IF r = "chat"
  THEN ChatView(0, FALSE)
  ELSE EmptyView

\* mutant: FlashcardView waits for a click, like the other pages
MountIssues_Never(r, cached) == FALSE

\* whether the mount effect of page r calls the generation endpoint
MountIssues(r, cached) == r = "flashcards" /\ ~FlashcardsHit(cached)

\* mutant: ChatInterface mounts without removing the history
MountStorage_KeepsChat(st, now, r) ==
  IF r \in Features THEN CacheGetStorage(st, now, r) ELSE st

\* the storage the mount effects of page r leave
MountStorage(st, now, r) ==
  IF r = "chat" THEN CacheRemove(st, "chat_history")
  ELSE IF r \in Features THEN CacheGetStorage(st, now, r)
  ELSE st

\* requests of a page that was unmounted: their setState calls do nothing
Orphaned(reqs) ==
  [q \in {[r EXCEPT !.live = FALSE] : r \in DOMAIN reqs} |->
     CopiesIn(q, reqs) + CopiesIn([q EXCEPT !.live = TRUE], reqs)]

\* history: the requests in flight when a document is uploaded become stale
Staled(reqs) ==
  [q \in {[r EXCEPT !.stale = TRUE] : r \in DOMAIN reqs} |->
     CopiesIn(q, reqs) + CopiesIn([q EXCEPT !.stale = FALSE], reqs)]

NewRequest(f) == SetToBag({[f |-> f, stale |-> FALSE, live |-> TRUE]})

\* page r is mounted over storage st, with reqs the requests still in flight;
\* the page shown before is unmounted, and the file list of PDFUpload with it
MountAt(r, st, reqs) ==
  LET cached == IF r \in Features THEN CacheGet(st, clock, r) ELSE Null IN
  /\ route' = r
  /\ files' = << >>
  /\ view' = MountView(r, cached)
  /\ storage' = MountStorage(st, clock, r)
  /\ IF MountIssues(r, cached)
     THEN /\ nReq < MaxReq
          /\ nReq' = nReq + 1
          /\ inflight' = reqs (+) NewRequest(r)
     ELSE /\ nReq' = nReq
          /\ inflight' = reqs

\* a sidebar link to another page
Navigate(r) ==
  /\ r # route
  /\ MountAt(r, storage, Orphaned(inflight))
  /\ UNCHANGED <<uploads, redirects, docVersion, clock, ret, touched, lastOp>>

\* window reload: beforeunload handlers run, pending handlers are lost
Reload ==
  /\ MountAt(route,
             IF route = "question_paper"
             THEN CacheRemove(storage, "question_paper") ELSE storage,
             EmptyBag)
  /\ uploads' = 0
  /\ redirects' = 0
  /\ UNCHANGED <<docVersion, clock, ret, touched, lastOp>>

\* whether the click behind Generate / Regenerate calls the endpoint
GenerateIssues(f, cached) == f # "flashcards" \/ ~FlashcardsHit(cached)

\* the state the click leaves
GenerateView(f, cached, v) ==
  IF GenerateIssues(f, cached)
  THEN [v EXCEPT !.loading = TRUE]
  ELSE [v EXCEPT !.shown = cached, !.ready = TRUE, !.src = "cache"]

\* whether page f shows the control that starts a generation
GenerateShown(f, v) ==
  /\ ~v.loading
  /\ f = "flashcards" \/ ~v.ready

\* Generate (Quiz, Summary, QuestionPaper, Mindmap, Podcast: handleGenerate);
\* Generate Flashcards / Regenerate (FlashcardView: loadFlashcards)
Generate(f) ==
  LET cached == CacheGet(storage, clock, f) IN
  /\ route = f
  /\ GenerateShown(f, view)
  /\ view' = GenerateView(f, cached, view)
  /\ storage' = IF f = "flashcards"
                THEN CacheGetStorage(storage, clock, f) ELSE storage
  /\ IF GenerateIssues(f, cached)
     THEN /\ nReq < MaxReq
          /\ nReq' = nReq + 1
          /\ inflight' = inflight (+) NewRequest(f)
     ELSE /\ nReq' = nReq
          /\ inflight' = inflight
  /\ UNCHANGED <<route, uploads, redirects, docVersion, files, clock, ret,
                 touched, lastOp>>

\* whether FlashcardView reacts to next, previous and flip: the arrow keys
\* return when flashcards.length === 0
CardsShown(v) == v.shown # Null /\ v.shown.len > 0

\* FlashcardView.handleNext
HandleNext ==
  /\ route = "flashcards"
  /\ CardsShown(view)
  /\ view' = [view EXCEPT !.flipped = FALSE,
                          !.index = (view.index + 1) % view.shown.len]
  /\ UNCHANGED <<storage, inflight, nReq, route, uploads, redirects,
                 docVersion, files, clock, ret, touched, lastOp>>

\* FlashcardView.handlePrevious
HandlePrevious ==
  /\ route = "flashcards"
  /\ CardsShown(view)
  /\ view' = [view EXCEPT
                !.flipped = FALSE,
                !.index = (view.index - 1 + view.shown.len) % view.shown.len]
  /\ UNCHANGED <<storage, inflight, nReq, route, uploads, redirects,
                 docVersion, files, clock, ret, touched, lastOp>>

\* FlashcardView.handleFlip
HandleFlip ==
  /\ route = "flashcards"
  /\ CardsShown(view)
  /\ view' = [view EXCEPT !.flipped = ~view.flipped]
  /\ UNCHANGED <<storage, inflight, nReq, route, uploads, redirects,
                 docVersion, files, clock, ret, touched, lastOp>>

\* Generate New: setGenerated(false); Quiz: setActiveTab("generate")
GenerateNew(f) ==
  /\ route = f
  /\ f # "flashcards"
  /\ view.ready
  /\ view' = [view EXCEPT !.ready = FALSE]
  /\ UNCHANGED <<storage, inflight, nReq, route, uploads, redirects,
                 docVersion, files, clock, ret, touched, lastOp>>

\* mutant: the handler shows the artifact without caching it
RespondStorage_NoWrite(st, now, req, len, storageOk) == st

\* the storage a response with a usable payload leaves
RespondStorage(st, now, req, len, storageOk) ==
  CacheSet(st, now, req.f, Artifact(req, len), NoTtl, storageOk)

\* mutant: the success path never reaches setIsLoading(false)
RespondView_StaysLoading(req, len, v) ==
  IF req.live
  THEN [shown |-> Artifact(req, len),
        ready |-> (req.f # "flashcards" \/ len > 0),
        loading |-> TRUE,
        src |-> "response",
        index |-> v.index,
        flipped |-> v.flipped]
  ELSE v

\* the page state a response with a usable payload leaves
RespondView(req, len, v) ==
  IF req.live
  THEN [shown |-> Artifact(req, len),
        ready |-> (req.f # "flashcards" \/ len > 0),
        loading |-> FALSE,
        src |-> "response",
        index |-> v.index,
        flipped |-> v.flipped]
  ELSE v

\* the endpoint answers req with a usable payload of len items
RespondOk(req, len, storageOk) ==
  /\ BagIn(req, inflight)
  /\ req.f \in Features
  /\ len \in LensOf(req.f)
  /\ inflight' = inflight (-) SetToBag({req})
  /\ storage' = RespondStorage(storage, clock, req, len, storageOk)
  /\ view' = RespondView(req, len, view)
  /\ UNCHANGED <<route, nReq, uploads, redirects, docVersion, files, clock, ret,
                 touched, lastOp>>

\* features whose handler tests response.success && response.<payload>
ChecksPayload == {"summary", "question_paper", "mindmap"}

\* mutant: the handler has no finally block
ErrorView_KeepsLoading(req, v) == v

\* the page state the catch and the finally block leave
ErrorView(req, v) == IF req.live THEN [v EXCEPT !.loading = FALSE] ELSE v

\* mutant: the catch drops the slot of the feature
ErrorStorage_RemovesSlot(st, req) == CacheRemove(st, req.f)

\* the storage a failed request leaves: no handler touches the cache
ErrorStorage(st, req) == st

\* the request fails (fetch rejects or non-2xx), or the response has no
\* payload: toast.error, finally setIsLoading(false)
RespondError(req, thrown) ==
  /\ BagIn(req, inflight)
  /\ req.f \in Features
  /\ thrown \/ req.f \in ChecksPayload
  /\ inflight' = inflight (-) SetToBag({req})
  /\ view' = ErrorView(req, view)
  /\ storage' = ErrorStorage(storage, req)
  /\ UNCHANGED <<route, nReq, uploads, redirects, docVersion, files, clock,
                 ret, touched, lastOp>>

\* Quiz.handleSubmitQuiz: the Submit button of the take tab
SubmitQuiz ==
  /\ route = "quiz"
  /\ view.ready
  /\ ~view.loading
  /\ view.shown.len > 0
  /\ nReq < MaxReq
  /\ nReq' = nReq + 1
  /\ view' = [view EXCEPT !.loading = TRUE]
  /\ inflight' = inflight (+) NewRequest("submit")
  /\ UNCHANGED <<storage, route, uploads, redirects, docVersion, files, clock, ret,
                 touched, lastOp>>

\* submitQuiz resolves or rejects: results or toast.error, then finally
\* setIsLoading(false)
SubmitDone(req) ==
  /\ BagIn(req, inflight)
  /\ req.f = "submit"
  /\ inflight' = inflight (-) SetToBag({req})
  /\ view' = IF req.live THEN [view EXCEPT !.loading = FALSE] ELSE view
  /\ UNCHANGED <<storage, route, nReq, uploads, redirects, docVersion, files, clock,
                 ret, touched, lastOp>>

\* the save effect of ChatInterface, run after messages changed to len
SaveStorage(st, now, len, storageOk) ==
  IF len > 0
  THEN CacheSet(st, now, "chat_history", Messages(len), NoTtl, storageOk)
  ELSE st

\* the text of the textarea, as a sequence of characters
Inputs == {<< >>, <<" ">>, <<"a">>, <<" ", "a">>}

\* String.prototype.trim: white space is stripped from both ends
RECURSIVE TrimStart(_)
TrimStart(input) ==
  IF input # << >> /\ Head(input) = " " THEN TrimStart(Tail(input)) ELSE input

RECURSIVE TrimEnd(_)
TrimEnd(input) ==
  IF input # << >> /\ input[Len(input)] = " "
  THEN TrimEnd(SubSeq(input, 1, Len(input) - 1)) ELSE input

Trim(input) == TrimEnd(TrimStart(input))

\* if (!input.trim()) return
SendReturnsEarly(input) == Trim(input) = << >>

\* the request of a send: at is history, the position in the list of the
\* user's message that it answers
ChatRequest(at) ==
  SetToBag({[f |-> "chat", stale |-> FALSE, live |-> TRUE, at |-> at]})

\* the page state handleSend leaves before it awaits chat(input)
ChatSendView(input, v) ==
  IF SendReturnsEarly(input) THEN v ELSE ChatView(v.shown.len + 1, TRUE)

\* ChatInterface.handleSend (the Send button, or Enter): with a blank input it
\* returns at once; else the user's message is appended and saved, and
\* chat(input) is called
ChatSend(input, storageOk) ==
  /\ route = "chat"
  /\ view' = ChatSendView(input, view)
  /\ IF SendReturnsEarly(input)
     THEN UNCHANGED <<nReq, storage, inflight>>
     ELSE /\ nReq < MaxReq
          /\ nReq' = nReq + 1
          /\ storage' = SaveStorage(storage, clock, view.shown.len + 1, storageOk)
          /\ inflight' = inflight (+) ChatRequest(view.shown.len + 1)
  /\ UNCHANGED <<route, uploads, redirects, docVersion, files, clock, ret, touched,
                 lastOp>>

\* the page state handleSend leaves when chat(input) settles: the answer, or
\* on a failure the apology, is appended as an assistant message
ChatReplyView(req, thrown, v) ==
  IF req.live THEN ChatView(v.shown.len + 1, FALSE) ELSE v

\* the storage the save effect leaves after the reply was appended
ChatReplyStorage(st, now, req, thrown, v, storageOk) ==
  IF req.live THEN SaveStorage(st, now, v.shown.len + 1, storageOk) ELSE st

\* chat(input) resolves, or rejects (thrown)
ChatReply(req, thrown, storageOk) ==
  /\ BagIn(req, inflight)
  /\ req.f = "chat"
  /\ inflight' = inflight (-) SetToBag({req})
  /\ view' = ChatReplyView(req, thrown, view)
  /\ storage' = ChatReplyStorage(storage, clock, req, thrown, view, storageOk)
  /\ UNCHANGED <<route, nReq, uploads, redirects, docVersion, files, clock, ret,
                 touched, lastOp>>

\* mutant: handleLogout clears the cache
LogoutStorage_Clears(st) == CacheClear(st)

\* the storage handleLogout leaves
LogoutStorage(st) == st

\* AppSidebar.handleLogout, followed by a new login: the layout is unmounted
\* and the upload page is shown
Logout ==
  /\ route' = "upload"
  /\ view' = EmptyView
  /\ storage' = LogoutStorage(storage)
  /\ inflight' = Orphaned(inflight)
  /\ files' = << >>
  /\ UNCHANGED <<nReq, uploads, redirects, docVersion, clock, ret, touched,
                 lastOp>>

\* UploadedFile: status and progress are the fields of the entry; timer is
\* whether its setInterval is still running, pending whether its
\* uploadDocument call has not settled.  removeFile filters an entry out of
\* the list: the entry stays here, as history, with status "removed"
NewFile ==
  [status |-> "uploading", progress |-> 0, timer |-> TRUE, pending |-> TRUE]

\* the entries of the list whose uploadDocument call has not settled
PendingFiles(fs) == {i \in DOMAIN fs : fs[i].pending}

\* the calls of uploadDocument that can settle now: those of the entries of
\* the list and, as 0, one made by a PDFUpload that was unmounted since
Settling(fs, n) ==
  PendingFiles(fs) \cup (IF n > Cardinality(PendingFiles(fs)) THEN {0} ELSE {})

\* setFiles(prev => prev.map(f => f.id === id ? {...f, ...} : f)): an entry
\* that was filtered out is not in prev
MapFile(fs, i, status, progress) ==
  IF fs[i].status = "removed" THEN fs
  ELSE [fs EXCEPT ![i].status = status, ![i].progress = progress]

\* the list after uploadDocument resolved for entry i: clearInterval, then
\* status "completed" and progress 100
FilesResolved(fs, i) ==
  IF i = 0 THEN fs
  ELSE [MapFile(fs, i, "completed", 100) EXCEPT
          ![i].timer = FALSE, ![i].pending = FALSE]

\* the list after uploadDocument rejected for entry i: the catch sets status
\* "error" and progress 0; clearInterval is not reached
FilesRejected(fs, i) ==
  IF i = 0 THEN fs
  ELSE [MapFile(fs, i, "error", 0) EXCEPT ![i].pending = FALSE]

\* PDFUpload.processFiles: the entry is appended, the progress timer is
\* started, uploadDocument(file) is called
StartUpload ==
  /\ route = "upload"
  /\ docVersion + uploads < MaxUploads
  /\ Len(files) < MaxFiles
  /\ uploads' = uploads + 1
  /\ files' = Append(files, NewFile)
  /\ UNCHANGED <<storage, route, view, inflight, nReq, redirects, docVersion,
                 clock, ret, touched, lastOp>>

\* the callback of setInterval(..., 300) of entry i: ten more, below 90
ProgressTick(i) ==
  /\ i \in DOMAIN files
  /\ files[i].timer
  /\ files[i].status # "removed"
  /\ files[i].progress < 90
  /\ files' = [files EXCEPT ![i].progress = files[i].progress + 10]
  /\ UNCHANGED <<storage, route, view, inflight, nReq, uploads, redirects,
                 docVersion, clock, ret, touched, lastOp>>

\* removeFile(id): the X button of an entry
RemoveFile(i) ==
  /\ i \in DOMAIN files
  /\ files[i].status # "removed"
  /\ files' = [files EXCEPT ![i].status = "removed"]
  /\ UNCHANGED <<storage, route, view, inflight, nReq, uploads, redirects,
                 docVersion, clock, ret, touched, lastOp>>

\* the storage processFiles leaves when uploadDocument resolves
UploadStorage(st) == CacheClear(st)

\* uploadDocument resolves: cache.clear(), then the redirect is scheduled
UploadOk ==
  /\ uploads > 0
  /\ uploads' = uploads - 1
  /\ storage' = UploadStorage(storage)
  /\ docVersion' = docVersion + 1
  /\ redirects' = redirects + 1
  /\ inflight' = Staled(inflight)
  /\ \E i \in Settling(files, uploads) : files' = FilesResolved(files, i)
  /\ UNCHANGED <<route, view, nReq, clock, ret, touched, lastOp>>

\* uploadDocument rejects
UploadError ==
  /\ uploads > 0
  /\ uploads' = uploads - 1
  /\ \E i \in Settling(files, uploads) : files' = FilesRejected(files, i)
  /\ UNCHANGED <<storage, route, view, inflight, nReq, redirects, docVersion,
                 clock, ret, touched, lastOp>>

\* the timer fires: navigate("/chat")
Redirect ==
  /\ redirects > 0
  /\ redirects' = redirects - 1
  /\ IF route = "chat"
     THEN UNCHANGED <<route, view, storage, nReq, inflight, files>>
     ELSE MountAt("chat", storage, Orphaned(inflight))
  /\ UNCHANGED <<uploads, docVersion, clock, ret, touched, lastOp>>

Init == InitCache

Next ==
  \/ \E r \in Routes : Navigate(r)
  \/ Reload
  \/ \E f \in Features : Generate(f)
  \/ \E f \in Features : GenerateNew(f)
  \/ \E req \in BagToSet(inflight), len \in Lens, storageOk \in BOOLEAN :
        RespondOk(req, len, storageOk)
  \/ \E req \in BagToSet(inflight), thrown \in BOOLEAN : RespondError(req, thrown)
  \/ SubmitQuiz
  \/ \E req \in BagToSet(inflight) : SubmitDone(req)
  \/ \E input \in Inputs, storageOk \in BOOLEAN : ChatSend(input, storageOk)
  \/ \E req \in BagToSet(inflight), thrown, storageOk \in BOOLEAN :
        ChatReply(req, thrown, storageOk)
  \/ Logout
  \/ StartUpload
  \/ UploadOk
  \/ UploadError
  \/ Redirect

Spec == Init /\ [][Next]_vars

\* the upload page with its progress timers: files are added, their timers
\* tick, their uploads settle, entries are removed, the redirect fires and the
\* user comes back to the page
NextUpload ==
  \/ StartUpload
  \/ \E i \in DOMAIN files : ProgressTick(i)
  \/ \E i \in DOMAIN files : RemoveFile(i)
  \/ UploadOk
  \/ UploadError
  \/ Redirect
  \/ Navigate("upload")

UploadSpec == Init /\ [][NextUpload]_vars

\* the flashcards page with its card navigation: the page is opened and
\* left, cards are generated and regenerated, and the user pages through them
NextFlashcard ==
  \/ Navigate("flashcards")
  \/ Navigate("upload")
  \/ Generate("flashcards")
  \/ \E req \in BagToSet(inflight), len \in CardCounts, storageOk \in BOOLEAN :
        RespondOk(req, len, storageOk)
  \/ \E req \in BagToSet(inflight), thrown \in BOOLEAN : RespondError(req, thrown)
  \/ HandleNext
  \/ HandlePrevious
  \/ HandleFlip

FlashcardSpec == Init /\ [][NextFlashcard]_vars

\* a pending request settles: its promise resolves or rejects
Settle ==
  \/ \E req \in BagToSet(inflight), len \in Lens, storageOk \in BOOLEAN :
        RespondOk(req, len, storageOk)
  \/ \E req \in BagToSet(inflight), thrown \in BOOLEAN : RespondError(req, thrown)
  \/ \E req \in BagToSet(inflight) : SubmitDone(req)
  \/ \E req \in BagToSet(inflight), thrown, storageOk \in BOOLEAN :
        ChatReply(req, thrown, storageOk)

\* the application when every request is answered (no transport hangs)
LiveSpec == Init /\ [][Next]_vars /\ WF_vars(Settle)

----------------------------------------------------------------------------
(* Properties *)

\* cache.get returns the miss signal for every registry key
AllMiss(st, now) == \A key \in CACHE_KEYS : CacheGet(st, now, key) = Null

\* page f is activated: by a sidebar link, or by a reload while it is shown
Activates(f) ==
  /\ route' = f
  /\ Navigate(f) \/ (route = f /\ Reload)

\* the state of a page that went to READY from the cache
HitView(cached) ==
  [shown |-> cached, ready |-> TRUE, loading |-> FALSE, src |-> "cache",
   index |-> 0, flipped |-> FALSE]

\* C1 (as claimed): at the moment the redirect to /chat fires, every one of the
\* seven slots returns a miss.
C1_MissAtRedirect == [][Redirect => AllMiss(storage, clock)]_vars

\* C1 (amended): when an upload completes successfully, the cache is cleared
\* in the step that schedules the redirect: right after it, every one of the
\* seven slots returns a miss.
C1_ClearedWhenRedirectScheduled ==
  [][UploadOk => (redirects' = redirects + 1 /\ AllMiss(storage', clock'))]_vars

\* C1 witness: the flashcards page shows cards it read from the cache, an
\* upload has since completed, its redirect is pending and no slot is left.
C1_Witness ==
  /\ route = "flashcards"
  /\ view.src = "cache"
  /\ view.shown # Null
  /\ redirects = 1
  /\ docVersion = 1
  /\ LiveKeys(storage) = {}

\* C2 (as claimed): no slot ever holds an artifact whose generation request
\* was issued before the last successful upload.
C2_NoStaleArtifact ==
  \A key \in LiveKeys(storage) \cap Features :
    ~JsonParse(storage[getKey(key)]).data.stale

C4_ExpiredIsEvicted ==
  [][\A key \in CACHE_KEYS :
       (/\ Get(key)
        /\ hasItem(storage, getKey(key))
        /\ ~ParseThrows(storage[getKey(key)])
        /\ \E ttl \in storage[getKey(key)].expiresIn :
             clock - storage[getKey(key)].timestamp > ttl) =>
         /\ ret' = Null
         /\ ~hasItem(storage', getKey(key))
         /\ ~CacheHas(storage', clock', key)]_vars

\* C5: an entry written without ttl is read back with its stored value, and
\* left in storage, whatever time has elapsed since the write.
C5_NoTtlNeverExpires ==
  \A key \in LiveKeys(storage) :
    (~ParseThrows(storage[getKey(key)])
       /\ storage[getKey(key)].expiresIn = NoTtl) =>
      /\ CacheGet(storage, clock, key) = JsonParse(storage[getKey(key)]).data
      /\ CacheGetStorage(storage, clock, key) = storage

\* C5 witness: get has returned the value of an entry without ttl written
\* MaxClock ago.
C5_Witness ==
  /\ lastOp = "get"
  /\ ret = NestedObject
  /\ clock = MaxClock
  /\ \E key \in touched :
       /\ storage[getKey(key)].timestamp = 0
       /\ storage[getKey(key)].expiresIn = NoTtl
       /\ JsonParse(storage[getKey(key)]).data = ret

\* C6: after clear(), get returns a miss and has returns false for every one
\* of the seven registry keys.
C6_ClearEmptiesEverySlot ==
  [][Clear => \A key \in CACHE_KEYS :
                /\ CacheGet(storage', clock', key) = Null
                /\ ~CacheHas(storage', clock', key)
                /\ ~hasItem(storage', getKey(key))]_vars

\* C6 witness: clear has just run and no slot is left.
C6_Witness == lastOp = "clear" /\ LiveKeys(storage) = {} /\ clock > 0

\* C7: get returns a miss for every key that was not written since its last
\* remove or clear (never written, or written and then removed).
C7_UntouchedOrRemovedIsMiss ==
  \A key \in CACHE_KEYS \ touched :
    CacheGet(storage, clock, key) = Null /\ ~CacheHas(storage, clock, key)

\* C7 witness: get has returned a miss while no key is written.
C7_Witness == lastOp = "get" /\ ret = Null /\ touched = {} /\ clock > 0

\* C8: a feature page activated while its slot holds a non-empty artifact is
\* READY with exactly that artifact, and the activation issues no request.
C8_HitMountsReady ==
  [][\A f \in Features :
       LET cached == CacheGet(storage', clock', f) IN
       (Activates(f) /\ cached # Null /\ cached.len > 0) =>
         /\ view' = HitView(cached)
         /\ nReq' = nReq
         /\ \A q \in BagToSet(inflight') : ~q.live]_vars

\* C8 witness: the quiz page shows the three cached questions, read from the
\* cache, with no request of its own in flight.
C8_Witness ==
  /\ route = "quiz"
  /\ view = HitView(CacheGet(storage, clock, "quiz"))
  /\ view.shown.len = 3
  /\ \A q \in BagToSet(inflight) : ~q.live

\* C9 (as claimed): on every feature page the click that (re)generates issues
\* a new generation request, whatever the slot holds.
C9_RegenerateIssuesRequest ==
  [][\A f \in Features : Generate(f) => nReq' = nReq + 1]_vars

C17_CorruptIsMiss ==
  [][\A key \in CACHE_KEYS :
       (/\ Get(key)
        /\ hasItem(storage, getKey(key))
        /\ ParseThrows(storage[getKey(key)])) =>
         /\ ret' = Null
         /\ ret' = CacheGet(removeItem(storage, getKey(key)), clock, key)
         /\ ~CacheHas(storage', clock', key)]_vars

\* C17 witness: get has returned a miss while a slot holds text that is not
\* JSON.
C17_Witness ==
  /\ lastOp = "get"
  /\ ret = Null
  /\ \E key \in LiveKeys(storage) : ParseThrows(storage[getKey(key)])

\* C18: in every state, a set whose storage write or serialization fails
\* leaves the whole storage, the slot of its key included, as it was; and
\* every call of set, failed or not, has returned normally (undefined).
C18_FailedSetIsNoOp ==
  /\ \A key \in CACHE_KEYS, inp \in SetInputs :
       CacheSet(storage, clock, key, inp[1], inp[2], FALSE) = storage
  /\ lastOp \in SetOps => ret = Undefined

\* C18 witness: set was the last call, and the only slot still holds what an
\* earlier set wrote: the last set failed.
C18_Witness ==
  /\ lastOp = "set"
  /\ ret = Undefined
  /\ Cardinality(LiveKeys(storage)) = MaxLive
  /\ \E key \in touched :
       /\ storage[getKey(key)].timestamp < clock
       /\ JsonParse(storage[getKey(key)]).data = NestedObject

\* C19: has(key) returns true exactly when get(key) in the same state returns
\* a value other than null, and leaves the storage get(key) leaves: an expired
\* entry is removed by has.
C19_HasIsGetHit ==
  [][\A key \in CACHE_KEYS :
       Has(key) =>
         /\ ret' = Bool(CacheGet(storage, clock, key) # Null)
         /\ storage' = CacheGetStorage(storage, clock, key)
         /\ Evicted(storage, clock, key) # {} =>
              ~hasItem(storage', getKey(key))]_vars

\* C19 witness: has has just found an entry expired, answered false and
\* removed it.
C19_Witness ==
  /\ lastOp = "has, evicting"
  /\ ret = False
  /\ LiveKeys(storage) = {}

\* the requests of feature f that await their response
Outstanding(f) ==
  BagCardinality([q \in {r \in BagToSet(inflight) : r.f = f} |->
                    CopiesIn(q, inflight)])

\* C11 (as claimed): for each feature, at most one generation request is
\* outstanding at any time.
C11_OneRequestPerFeature == \A f \in Features : Outstanding(f) <= 1

\* the page state v holds an artifact with something in it
Holds(v) == v.shown # Null /\ v.shown.len > 0

\* C12 (as claimed): a failed generation request leaves its controller EMPTY:
\* not loading and holding no artifact.
C12_FailureEndsEmpty ==
  [][\A req \in BagToSet(inflight), thrown \in BOOLEAN :
       (req.live /\ RespondError(req, thrown)) =>
         /\ ~view'.loading
         /\ ~Holds(view')]_vars

\* C12 (amended): a failed generation request leaves its controller not
\* loading and holding what it held before the request, no more and no less:
\* nothing when it held nothing (EMPTY), else the earlier artifact.
C12_FailureKeepsArtifact ==
  [][\A req \in BagToSet(inflight), thrown \in BOOLEAN :
       (req.live /\ RespondError(req, thrown)) =>
         /\ view.loading
         /\ ~view'.loading
         /\ view'.shown = view.shown
         /\ view'.ready = view.ready
         /\ view.shown = Null => view' = EmptyView]_vars

\* C12 witness: a request of the summary page has failed; the page is on its
\* form again, not loading, still holding the summary generated before.
C12_Witness ==
  /\ route = "summary"
  /\ nReq = 2
  /\ inflight = EmptyBag
  /\ ~view.loading
  /\ ~view.ready
  /\ view.shown = CacheGet(storage, clock, "summary")
  /\ Holds(view)
  /\ view.src = "response"

\* C13 (as claimed): a failed request of any feature, chat included, leaves
\* the feature's state and the storage as they were before the request was
\* issued.  For chat the list before the request lacks the user's message
\* that handleSend appended, so it is shorter than the list at the failure.
C13_FailureRevertsState ==
  [][\A req \in BagToSet(inflight), thrown, storageOk \in BOOLEAN :
       /\ (req.live /\ RespondError(req, thrown)) =>
            /\ view' = [view EXCEPT !.loading = FALSE]
            /\ storage' = storage
       /\ (req.live /\ ChatReply(req, TRUE, storageOk)) =>
            /\ ~view'.loading
            /\ view'.shown.len < view.shown.len]_vars

\* C13 (amended): a failed request of one of the six generation features
\* leaves the feature's state as it was before the request (the loading flag
\* is cleared, nothing else changes) and the storage untouched.  A failed
\* chat request keeps the user's message, appends an apology as an assistant
\* message, and saves the longer list to chat_history.
C13_FailureRevertsGeneration ==
  [][\A req \in BagToSet(inflight), thrown, storageOk \in BOOLEAN :
       /\ (req.live /\ RespondError(req, thrown)) =>
            /\ view' = [view EXCEPT !.loading = FALSE]
            /\ storage' = storage
       /\ (req.live /\ ChatReply(req, TRUE, storageOk)) =>
            /\ view' = ChatView(view.shown.len + 1, FALSE)
            /\ storageOk =>
                 CacheGet(storage', clock', "chat_history") = view'.shown]_vars

\* C13 witness: the chat page shows the user's message and the reply to it,
\* both saved in the slot, and nothing is pending.
C13_Witness ==
  /\ route = "chat"
  /\ view = ChatView(2, FALSE)
  /\ inflight = EmptyBag
  /\ CacheGet(storage, clock, "chat_history") = Messages(2)

\* C14: the step in which the request of a mounted controller settles, with
\* success or with failure, leaves the controller not loading; and when every
\* request settles, a controller that is loading is eventually not loading.
C14_SettledRequestEndsLoading ==
  /\ [][\A req \in BagToSet(inflight) :
          (req.live /\ inflight' = inflight (-) SetToBag({req}) /\ Settle) =>
            ~view'.loading]_vars
  /\ (view.loading ~> ~view.loading)

\* C14 witness: the quiz page is awaiting the answer to a submission.
C14_Witness ==
  /\ route = "quiz"
  /\ view.loading
  /\ view.ready
  /\ BagIn([f |-> "submit", stale |-> FALSE, live |-> TRUE], inflight)

\* C15 (as claimed): after the page is unloaded, the question_paper slot
\* returns a miss, whichever route was displayed.
C15_UnloadWipesQuestionPaper ==
  [][Reload => CacheGet(storage', clock', "question_paper") = Null]_vars

\* the chat controller is activated afresh
ChatActivates ==
  /\ route' = "chat"
  /\ \/ Navigate("chat")
     \/ route = "chat" /\ Reload
     \/ route # "chat" /\ Redirect

\* C16: every fresh activation of the chat controller leaves the message list
\* empty and the chat_history slot removed, so that get(chat_history) is a
\* miss; and the reply to a message sent in an earlier activation changes
\* neither the list nor the slot.
C16_ChatStartsFresh ==
  [][/\ ChatActivates =>
          /\ view' = ChatView(0, FALSE)
          /\ ~hasItem(storage', getKey("chat_history"))
          /\ CacheGet(storage', clock', "chat_history") = Null
     /\ \A req \in BagToSet(inflight), thrown, storageOk \in BOOLEAN :
          (~req.live /\ ChatReply(req, thrown, storageOk)) =>
            /\ view' = view
            /\ storage' = storage]_vars

\* C16 witness: the chat page was activated again while the request of an
\* earlier activation is pending: no message is shown, the slot is gone.
C16_Witness ==
  /\ route = "chat"
  /\ view = ChatView(0, FALSE)
  /\ BagIn([f |-> "chat", stale |-> FALSE, live |-> FALSE, at |-> 1], inflight)
  /\ ~hasItem(storage, getKey("chat_history"))

\* the storage names a step removes
Removed == DOMAIN storage \ DOMAIN storage'

\* C20: only the step that completes an upload empties the registry: every
\* other step removes at most one slot (chat_history when the chat page
\* mounts, question_paper at unload), and a failed upload and a logout leave
\* the storage unchanged.
C20_OnlyUploadClears ==
  [][/\ ~UploadOk =>
          /\ Cardinality(Removed) <= 1
          /\ Removed \subseteq {getKey("chat_history"), getKey("question_paper")}
     /\ UploadError => storage' = storage
     /\ Logout => storage' = storage]_vars

\* C20 witness: two slots are populated, nothing is pending, and the upload
\* page is shown without any document having been uploaded.
C20_Witness ==
  /\ route = "upload"
  /\ docVersion = 0
  /\ uploads = 0
  /\ inflight = EmptyBag
  /\ Cardinality(LiveKeys(storage)) = 2

\* the storage names of the registry
RegistryNames == {getKey(key) : key \in CACHE_KEYS}

\* C21: in every state, a set the storage accepts leaves in the slot exactly
\* the entry it builds from its own arguments and the time of the call, the
\* same entry it leaves in an empty slot: get is then governed by this write
\* alone (its value, until its own ttl has elapsed, for ever when it has
\* none), whatever entry the slot held before.
C21_SetOverwrites ==
  \A key \in CACHE_KEYS, inp \in SetInputs :
    LET written == CacheSet(storage, clock, key, inp[1], inp[2], TRUE) IN
    /\ written[getKey(key)] = JsonStringify(inp[1], clock, inp[2])
    /\ written =
         CacheSet(CacheRemove(storage, key), clock, key, inp[1], inp[2], TRUE)
    /\ \A now \in clock..MaxClock :
         CacheGet(written, now, key) =
           IF \E n \in inp[2] : n # 0 /\ now - clock > n
           THEN Null ELSE inp[1]

\* C21 witness: set has just replaced the entry of a slot, at the latest
\* instant, by an entry without ttl.
C21_Witness ==
  /\ lastOp = "set, overwriting"
  /\ clock = MaxClock
  /\ \E key \in touched :
       /\ storage[getKey(key)].timestamp = clock
       /\ storage[getKey(key)].expiresIn = NoTtl
       /\ JsonParse(storage[getKey(key)]).data = EmptyArray

C23_RemoveOnlyItsSlot ==
  [][\A key \in CACHE_KEYS :
       Remove(key) =>
         /\ ret' = Undefined
         /\ ~hasItem(storage', getKey(key))
         /\ CacheGet(storage', clock', key) = Null
         /\ DOMAIN storage' = DOMAIN storage \ {getKey(key)}
         /\ \A n \in DOMAIN storage' : storage'[n] = storage[n]
         /\ ~hasItem(storage, getKey(key)) => storage' = storage]_vars

\* C23 witness: remove was the last call, on an absent slot, and the slot
\* that was written before it is still there.
C23_Witness ==
  /\ lastOp = "remove"
  /\ ret = Undefined
  /\ Cardinality(LiveKeys(storage)) = 1
  /\ touched = LiveKeys(storage)
  /\ clock = 1

\* C24: the seven registry keys have seven distinct storage names, each the
\* prefix "eduseva_" followed by the key; the storage never holds a name the
\* cache made up outside these seven; and the foreign entry is there,
\* unchanged, in every state, after clear included; get does not depend on it.
C24_OnlyRegistryNames ==
  /\ \A k1, k2 \in CACHE_KEYS : getKey(k1) = getKey(k2) => k1 = k2
  /\ getKey("question_paper") = "eduseva_question_paper"
  /\ DOMAIN storage \subseteq RegistryNames \cup {ForeignName}
  /\ hasItem(storage, ForeignName)
  /\ storage[ForeignName] = ForeignText
  /\ \A key \in CACHE_KEYS :
       CacheGet(removeItem(storage, ForeignName), clock, key) =
         CacheGet(storage, clock, key)

\* C24 witness: clear has just run, at the latest instant, and the foreign
\* entry is the only thing left in the storage.
C24_Witness ==
  /\ lastOp = "clear"
  /\ clock = MaxClock
  /\ DOMAIN storage = {ForeignName}
  /\ storage[ForeignName] = ForeignText

\* C25: in every state, get on an entry written with a ttl, when the time
\* elapsed since the write is at most the ttl (equal to it included), returns
\* the stored value and leaves the entry in the storage.
C25_ExpiryIsStrict ==
  \A key \in LiveKeys(storage) :
    (/\ ~ParseThrows(storage[getKey(key)])
     /\ \E n \in storage[getKey(key)].expiresIn :
          clock - storage[getKey(key)].timestamp <= n) =>
      /\ CacheGet(storage, clock, key) = JsonParse(storage[getKey(key)]).data
      /\ CacheGetStorage(storage, clock, key) = storage

\* C25 witness: get has returned the value of an entry whose ttl of 1 elapsed
\* exactly.
C25_Witness ==
  /\ lastOp = "get"
  /\ ret = NestedObject
  /\ \E key \in touched :
       /\ storage[getKey(key)].expiresIn = {1}
       /\ clock - storage[getKey(key)].timestamp = 1
       /\ storage[getKey(key)].timestamp = 1

\* the entries of the storage other than the slot of key are left as they were
OtherEntriesKept(key) ==
  /\ DOMAIN storage' \ {getKey(key)} = DOMAIN storage \ {getKey(key)}
  /\ \A n \in DOMAIN storage \ {getKey(key)} : storage'[n] = storage[n]

\* C26 (as claimed): a response with a non-empty payload to the request of a
\* mounted controller leaves the controller READY with the new artifact, and
\* get on the slot of the feature returns that artifact.
C26_SuccessIsCached ==
  [][\A req \in BagToSet(inflight), storageOk \in BOOLEAN :
       (req.live /\ RespondOk(req, 3, storageOk)) =>
         /\ view'.ready
         /\ view'.shown = Artifact(req, 3)
         /\ CacheGet(storage', clock', req.f) = view'.shown]_vars

\* C26 (amended): a response with a non-empty payload to the request of a
\* mounted controller leaves the controller READY, not loading, with the new
\* artifact, and no entry but the slot of the feature is touched.  When the
\* storage accepts the write, get on the slot returns the artifact displayed
\* and a page mounted over this storage is READY with it.  When it refuses
\* the write, the slot keeps what it held, which is not the artifact
\* displayed.  The response to a request whose page was unmounted is written
\* to the slot and changes no page state.
C26_SuccessIsCachedWhenAccepted ==
  [][\A req \in BagToSet(inflight), storageOk \in BOOLEAN :
       RespondOk(req, 3, storageOk) =>
         /\ OtherEntriesKept(req.f)
         /\ storageOk => CacheGet(storage', clock', req.f) = Artifact(req, 3)
         /\ ~storageOk => storage' = storage
         /\ ~req.live => view' = view
         /\ req.live =>
              /\ view'.ready
              /\ ~view'.loading
              /\ view'.shown = Artifact(req, 3)
              /\ storageOk =>
                   /\ CacheGet(storage', clock', req.f) = view'.shown
                   /\ MountView(req.f, CacheGet(storage', clock', req.f)).shown
                        = view'.shown
                   /\ MountView(req.f, CacheGet(storage', clock', req.f)).ready]_vars

\* C26 witness: the podcast page is READY with the podcast of its second
\* request, which is what its slot holds, beside the slot of another feature.
C26_Witness ==
  /\ route = "podcast"
  /\ view.ready
  /\ view.src = "response"
  /\ view.shown = CacheGet(storage, clock, "podcast")
  /\ nReq = 2
  /\ inflight = EmptyBag
  /\ Cardinality(LiveKeys(storage)) = 2

\* the slots from which get returns an artifact, or a chat history, with
\* something in it
Cached(st, now) ==
  {key \in CACHE_KEYS :
     /\ CacheGet(st, now, key) # Null
     /\ CacheGet(st, now, key).len > 0}

\* C27 (as claimed): after a logout no registry slot holds an artifact, so
\* that nothing cached in the session that ended is served in the next one.
C27_LogoutEmptiesCache == [][Logout => Cached(storage', clock') = {}]_vars

\* C28 (as claimed): a blank send changes nothing; a non-blank send appends
\* one message and issues one request; every reply to the mounted controller
\* appends one message; and that message directly follows the user's message
\* it answers.
C28_ReplyFollowsItsQuestion ==
  [][/\ \A input \in Inputs, storageOk \in BOOLEAN :
          ChatSend(input, storageOk) =>
            IF SendReturnsEarly(input)
            THEN view' = view /\ inflight' = inflight /\ nReq' = nReq
            ELSE /\ view'.shown.len = view.shown.len + 1
                 /\ nReq' = nReq + 1
                 /\ BagCardinality(inflight') = BagCardinality(inflight) + 1
     /\ \A req \in BagToSet(inflight), thrown, storageOk \in BOOLEAN :
          (req.live /\ ChatReply(req, thrown, storageOk)) =>
            /\ view'.shown.len = view.shown.len + 1
            /\ view'.shown.len = req.at + 1]_vars

\* C29 (as claimed): in the list of the upload page the timer of an entry no
\* longer moves its progress once its upload has settled: in every state an
\* entry in status "completed" has progress 100, one in status "error" has
\* progress 0, and one in status "uploading" has progress at most 90.
C29_ProgressMatchesStatus ==
  \A i \in DOMAIN files :
    /\ files[i].status = "completed" => files[i].progress = 100
    /\ files[i].status = "error" => files[i].progress = 0
    /\ files[i].status = "uploading" => files[i].progress <= 90

\* C30 (as claimed): whenever the flashcards page holds a non-empty list of
\* cards, currentIndex is the index of one of them.
C30_IndexInRange ==
  (route = "flashcards" /\ CardsShown(view)) =>
    view.index \in 0..(view.shown.len - 1)

====
